---- MODULE Spec2Model ----
(***************************************************************************)
(* Batch ingestion of a CSV file into the Orb platform                     *)
(* (src/orb_csv.py: create_backfill, create_or_get_customer,               *)
(* ingest_csv_to_orb).                                                     *)
(*                                                                         *)
(* Strings the code only copies or tests for equality are TLA+ strings.    *)
(* Strings the code parses, formats or orders (the month column, the ISO   *)
(* timestamps) are sequences of one-character strings, so that strptime,   *)
(* strftime, fromisoformat and the lexicographic min() of create_backfill  *)
(* are computed character by character.                                    *)
(***************************************************************************)
EXTENDS Integers, Sequences, FiniteSets, TLC

VARIABLES pc, file, data, index, customer_cache, events, backfill_id,
          calls, rowlog, outcome, run, first_keys

vars == <<pc, file, data, index, customer_cache, events, backfill_id,
          calls, rowlog, outcome, run, first_keys>>

(***************************************************************************)
(* Bounds of the model.                                                    *)
(***************************************************************************)
MaxRows == 3

(* Python's None and the float NaN pandas puts in an object column. *)
None == "None"
NaN == <<"N", "a", "N">>

(***************************************************************************)
(* The input files.  A CSV file is its header (the set of columns present) *)
(* and its data rows; the other kinds are the files pd.read_csv rejects.   *)
(* The columns transaction_id, account_type and bank_id are only copied    *)
(* into the event, standard and sameday are cleaned and copied;            *)
(* "transaction_id" stands for the copied columns and "standard" for the   *)
(* cleaned ones.                                                           *)
(***************************************************************************)
AllColumns == {"account_id", "customer_id", "month", "transaction_id", "standard"}

Headers ==
    { AllColumns,
      AllColumns \ {"customer_id"},
      AllColumns \ {"account_id"},
      AllColumns \ {"transaction_id"},
      AllColumns \ {"standard"} }

(* month cells: two parsable ones and one strptime rejects *)
Dec2023 == <<"1", "2", "-", "2", "0", "2", "3">>
Jan2024 == <<"0", "1", "-", "2", "0", "2", "4">>
BadMonth == <<"1", "3", "-", "2", "0", "2", "4">>

(* standard cells: a number with a thousands separator, a plain number and *)
(* a text float() rejects; an empty cell is read as NaN                    *)
Thousands == <<"1", ",", "2", "5", "0">>
Plain == <<"7">>
Junk == <<"1", "2", "x">>

Cells(a, c, m, s) == [account_id |-> a, customer_id |-> c, month |-> m, standard |-> s]

(* The rows a file is made of.  An empty customer_id cell is read as NaN. *)
RawRows ==
    { Cells("A001", None, Jan2024, Thousands),
      Cells("A001", None, Dec2023, Junk),
      Cells("A002", None, Jan2024, Plain),
      Cells("A002", None, BadMonth, NaN),
      Cells("A001", "cus_ext", Dec2023, Junk) }

(* a row of a file whose header lacks a column has no cell in it *)
RowsUnder(header) ==
    { [account_id  |-> IF "account_id" \in header THEN r.account_id ELSE None,
       customer_id |-> IF "customer_id" \in header THEN r.customer_id ELSE None,
       month       |-> r.month,
       standard    |-> IF "standard" \in header THEN r.standard ELSE None] : r \in RawRows }

RECURSIVE SeqsUpTo(_, _)
SeqsUpTo(S, n) ==
    IF n = 0 THEN { <<>> }
    ELSE LET shorter == SeqsUpTo(S, n - 1)
         IN  shorter \cup { Append(s, x) : s \in { t \in shorter : Len(t) = n - 1 }, x \in S }

CsvFiles ==
    UNION { [kind : {"csv"}, header : {h}, rows : SeqsUpTo(RowsUnder(h), MaxRows)] : h \in Headers }

Rejected(kind) == [kind |-> kind, header |-> {}, rows |-> <<>>]

Files == CsvFiles \cup { Rejected("missing"), Rejected("empty"), Rejected("malformed") }

NoFile == Rejected("none")

(***************************************************************************)
(* Characters, digits and zero-padded decimal formatting.                  *)
(***************************************************************************)
Digits == <<"0", "1", "2", "3", "4", "5", "6", "7", "8", "9">>

IsDigit(c) == \E d \in 1..10 : Digits[d] = c

DigitVal(c) == (CHOOSE d \in 1..10 : Digits[d] = c) - 1

(* ord() of the characters that occur in the timestamps *)
Ord(c) ==
    IF IsDigit(c) THEN 48 + DigitVal(c)
    ELSE IF c = "-" THEN 45
    ELSE IF c = ":" THEN 58
    ELSE IF c = "T" THEN 84
    ELSE IF c = "Z" THEN 90
    ELSE IF c = "N" THEN 78
    ELSE 97

(* the number the first k characters of s spell *)
RECURSIVE ParsePrefix(_, _)
ParsePrefix(s, k) ==
    IF k = 0 THEN 0
    ELSE 10 * ParsePrefix(s, k - 1) + DigitVal(s[k])

ParseInt(s) == ParsePrefix(s, Len(s))

AllDigits(s) == \A k \in 1..Len(s) : IsDigit(s[k])

(* n in decimal, zero-padded to width characters *)
Pad(n, width) == [k \in 1..width |-> Digits[((n \div (10 ^ (width - k))) % 10) + 1]]

(***************************************************************************)
(* Dates: pd.to_datetime(format="%m-%Y", errors='coerce'), strftime,       *)
(* datetime.fromisoformat and timedelta(days=n).                           *)
(***************************************************************************)
IsLeap(y) == (y % 4 = 0 /\ y % 100 # 0) \/ y % 400 = 0

DaysInMonth(y, m) ==
    IF m = 2 THEN (IF IsLeap(y) THEN 29 ELSE 28)
    ELSE IF m \in {4, 6, 9, 11} THEN 30
    ELSE 31

DateTime(y, m, d) ==
    [year |-> y, month |-> m, day |-> d, hour |-> 0, minute |-> 0, second |-> 0]

(* %m matches 1[0-2]|0[1-9]|[1-9], %Y matches four digits, the whole cell must match *)
MonthMatches(s) ==
    \/ /\ Len(s) = 7
       /\ s[3] = "-"
       /\ AllDigits(SubSeq(s, 1, 2))
       /\ AllDigits(SubSeq(s, 4, 7))
       /\ ParseInt(SubSeq(s, 1, 2)) \in 1..12
    \/ /\ Len(s) = 6
       /\ s[2] = "-"
       /\ AllDigits(SubSeq(s, 1, 1))
       /\ AllDigits(SubSeq(s, 3, 6))
       /\ ParseInt(SubSeq(s, 1, 1)) \in 1..9

MonthOf(s) == ParseInt(SubSeq(s, 1, Len(s) - 5))

YearOf(s) == ParseInt(SubSeq(s, Len(s) - 3, Len(s)))

(* a nanosecond Timestamp holds 1677-09-21 .. 2262-04-11 *)
InTimestampRange(y, m) ==
    /\ (y > 1677 \/ (y = 1677 /\ m >= 10))
    /\ (y < 2262 \/ (y = 2262 /\ m <= 4))

(* strftime("%Y-%m-%dT%H:%M:%SZ") *)
Strftime(dt) ==
    Pad(dt.year, 4) \o <<"-">> \o Pad(dt.month, 2) \o <<"-">> \o Pad(dt.day, 2)
      \o <<"T">> \o Pad(dt.hour, 2) \o <<":">> \o Pad(dt.minute, 2)
      \o <<":">> \o Pad(dt.second, 2) \o <<"Z">>

(* line 93: one cell of the month column to one cell of iso_timestamp *)
IsoTimestamp(month) ==
    IF MonthMatches(month) /\ InTimestampRange(YearOf(month), MonthOf(month))
    THEN Strftime(DateTime(YearOf(month), MonthOf(month), 1))
    ELSE NaN

(* str.replace("Z", "") *)
StripZ(s) == SelectSeq(s, LAMBDA c : c # "Z")

(* datetime.fromisoformat on "YYYY-MM-DDTHH:MM:SS" *)
FromIsoFormat(s) ==
    [year   |-> ParseInt(SubSeq(s, 1, 4)),
     month  |-> ParseInt(SubSeq(s, 6, 7)),
     day    |-> ParseInt(SubSeq(s, 9, 10)),
     hour   |-> ParseInt(SubSeq(s, 12, 13)),
     minute |-> ParseInt(SubSeq(s, 15, 16)),
     second |-> ParseInt(SubSeq(s, 18, 19))]

NextDay(dt) ==
    IF dt.day < DaysInMonth(dt.year, dt.month) THEN [dt EXCEPT !.day = dt.day + 1]
    ELSE IF dt.month < 12 THEN [dt EXCEPT !.day = 1, !.month = dt.month + 1]
    ELSE [dt EXCEPT !.day = 1, !.month = 1, !.year = dt.year + 1]

(* dt + timedelta(days=n), a day at a time (each day is computed once) *)
RECURSIVE AddDays(_, _)
AddDays(dt, n) ==
    IF n = 0 THEN dt
    ELSE CHOOSE later \in { AddDays(next, n - 1) : next \in {NextDay(dt)} } : TRUE

(* a < b on two str values: lexicographic, by code point *)
RECURSIVE StrLessFrom(_, _, _)
StrLessFrom(a, b, k) ==
    IF k > Len(b) THEN FALSE
    ELSE IF k > Len(a) THEN TRUE
    ELSE IF a[k] = b[k] THEN StrLessFrom(a, b, k + 1)
    ELSE Ord(a[k]) < Ord(b[k])

StrLess(a, b) == StrLessFrom(a, b, 1)

(***************************************************************************)
(* The remote platform.  Every call either returns or raises; a created    *)
(* customer gets an identifier no earlier customer of the run has.         *)
(***************************************************************************)
IsCreated(c) == c.op = "customers.create" /\ c.ok

CreatedCount(log) == Cardinality({ k \in 1..Len(log) : IsCreated(log[k]) })

CustomerResponses(log) ==
    { [ok |-> TRUE, id |-> "cus_" \o ToString(CreatedCount(log) + 1)],
      [ok |-> FALSE, id |-> None] }

BackfillResponses == { [ok |-> TRUE, id |-> "bf_1"], [ok |-> FALSE, id |-> None] }

IngestResponses == { [ok |-> TRUE], [ok |-> FALSE] }

Call(op, args, ok, ret) == [op |-> op, args |-> args, ok |-> ok, ret |-> ret]

(***************************************************************************)
(* create_backfill (lines 10-36)                                           *)
(***************************************************************************)
BackfillDays == 9

Timestamps(evs) == [k \in 1..Len(evs) |-> evs[k].timestamp]

(* the loop of min(): the least seen so far is replaced by a smaller item only *)
RECURSIVE MinFrom(_, _, _)
MinFrom(stamps, k, best) ==
    IF k > Len(stamps) THEN best
    ELSE CHOOSE least \in
           { MinFrom(stamps, k + 1, smaller) : smaller \in
               { IF StrLess(stamps[k], best) THEN stamps[k] ELSE best } } : TRUE

(* the minimum taken over the timestamps that are not NaN *)
BuiltinMin_skipna(stamps) ==
    LET valid == SelectSeq(stamps, LAMBDA t : t # NaN)
    IN  IF valid = <<>> THEN [exc |-> "ValueError", val |-> None]
        ELSE [exc |-> None, val |-> MinFrom(valid, 2, valid[1])]

(* the first timestamp taken for the minimum *)
BuiltinMin_first(stamps) ==
    IF stamps = <<>> THEN [exc |-> "ValueError", val |-> None]
    ELSE IF \E j, k \in 1..Len(stamps) : stamps[j] = NaN /\ stamps[k] # NaN
         THEN [exc |-> "TypeError", val |-> None]
    ELSE [exc |-> None, val |-> stamps[1]]

(* min() of line 22: ValueError on an empty sequence, TypeError when a str *)
(* meets a float; the first of several minima is kept.                     *)
BuiltinMin(stamps) ==
    IF stamps = <<>> THEN [exc |-> "ValueError", val |-> None]
    ELSE IF \E j, k \in 1..Len(stamps) : stamps[j] = NaN /\ stamps[k] # NaN
         THEN [exc |-> "TypeError", val |-> None]
    ELSE IF stamps[1] = NaN THEN [exc |-> None, val |-> NaN]
    ELSE [exc |-> None, val |-> MinFrom(stamps, 2, stamps[1])]

(* line 23; a float has no replace(): AttributeError *)
TimeframeEnd(timeframe_start) ==
    CHOOSE timeframe_end \in
        { Strftime(later) : later \in
            { AddDays(dt, BackfillDays) : dt \in
                { FromIsoFormat(naive) : naive \in {StripZ(timeframe_start)} } } } : TRUE

(* the result of create_backfill: what it returns, the remote call it made *)
(* and the exception its `except Exception` caught (lines 34-36)           *)
create_backfill(evs, response) ==
    LET m == BuiltinMin(Timestamps(evs))
    IN  IF m.exc # None
        THEN [ret |-> None, called |-> <<>>, error |-> m.exc]
        ELSE IF m.val = NaN
        THEN [ret |-> None, called |-> <<>>, error |-> "AttributeError"]
        ELSE LET args == [timeframe_start |-> m.val,
                          timeframe_end |-> TimeframeEnd(m.val),
                          close_time |-> None,
                          replace_existing_events |-> TRUE]
             IN  IF response.ok
                 THEN [ret |-> response.id,
                       called |-> <<Call("backfills.create", args, TRUE, response.id)>>,
                       error |-> None]
                 ELSE [ret |-> None,
                       called |-> <<Call("backfills.create", args, FALSE, None)>>,
                       error |-> "APIError"]

(***************************************************************************)
(* create_or_get_customer (lines 38-64)                                    *)
(***************************************************************************)
DictGet(d, key, default) == IF key \in DOMAIN d THEN d[key] ELSE default

(* create_or_get_customer caching the None of a failed creation *)
create_or_get_customer_cachefail(customer_data, cache, response) ==
    LET account_id == customer_data.account_id
        args == [email |-> DictGet(customer_data, "email", account_id \o "@example.com"),
                 name  |-> DictGet(customer_data, "name", "Customer " \o account_id)]
    IN  IF account_id \in DOMAIN cache
        THEN [ret |-> cache[account_id], cache |-> cache, called |-> <<>>]
        ELSE [ret |-> response.id,
              cache |-> (account_id :> response.id) @@ cache,
              called |-> <<Call("customers.create", args, response.ok, response.id)>>]

(* create_or_get_customer with line 59 left out: the identifier is not cached *)
create_or_get_customer_uncached(customer_data, cache, response) ==
    LET account_id == customer_data.account_id
        args == [email |-> DictGet(customer_data, "email", account_id \o "@example.com"),
                 name  |-> DictGet(customer_data, "name", "Customer " \o account_id)]
    IN  IF account_id \in DOMAIN cache
        THEN [ret |-> cache[account_id], cache |-> cache, called |-> <<>>]
        ELSE IF response.ok
        THEN [ret |-> response.id,
              cache |-> cache,
              called |-> <<Call("customers.create", args, TRUE, response.id)>>]
        ELSE [ret |-> None,
              cache |-> cache,
              called |-> <<Call("customers.create", args, FALSE, None)>>]

(* create_or_get_customer with lines 51-52 left out: the cache is not looked up *)
create_or_get_customer_overwrite(customer_data, cache, response) ==
    LET account_id == customer_data.account_id
        args == [email |-> DictGet(customer_data, "email", account_id \o "@example.com"),
                 name  |-> DictGet(customer_data, "name", "Customer " \o account_id)]
    IN  IF response.ok
        THEN [ret |-> response.id,
              cache |-> (account_id :> response.id) @@ cache,
              called |-> <<Call("customers.create", args, TRUE, response.id)>>]
        ELSE [ret |-> None,
              cache |-> cache,
              called |-> <<Call("customers.create", args, FALSE, None)>>]

create_or_get_customer(customer_data, cache, response) ==
    LET account_id == customer_data.account_id
        args == [email |-> DictGet(customer_data, "email", account_id \o "@example.com"),
                 name  |-> DictGet(customer_data, "name", "Customer " \o account_id)]
    IN  IF account_id \in DOMAIN cache
        THEN [ret |-> cache[account_id], cache |-> cache, called |-> <<>>]
        ELSE IF response.ok
        THEN [ret |-> response.id,
              cache |-> (account_id :> response.id) @@ cache,
              called |-> <<Call("customers.create", args, TRUE, response.id)>>]
        ELSE [ret |-> None,
              cache |-> cache,
              called |-> <<Call("customers.create", args, FALSE, None)>>]

(***************************************************************************)
(* ingest_csv_to_orb (lines 66-154)                                        *)
(***************************************************************************)

(* line 78: Orb(api_key=None) raises OrbError *)
OrbClient(api_key) == IF api_key = None THEN "OrbError" ELSE None

(* line 81: pd.read_csv *)
ReadCsv(f) ==
    IF f.kind = "missing" THEN "FileNotFoundError"
    ELSE IF f.kind = "empty" THEN "EmptyDataError"
    ELSE IF f.kind = "malformed" THEN "ParserError"
    ELSE None

(* lines 88-93: data["standard"], data["sameday"], data["month"] raise KeyError *)
(* on a missing column; data.get("customer_id", None) does not.              *)
CleanExc(f) == IF {"standard", "month"} \subseteq f.header THEN None ELSE "KeyError"

(* .replace({",": ""}, regex=True): the commas of every text cell are removed *)
StripCommas(cell) == IF cell = NaN THEN NaN ELSE SelectSeq(cell, LAMBDA c : c # ",")

(* float(text) succeeds; the cells of the model are made of digits, commas *)
(* and letters                                                             *)
IsFloatText(text) == text # <<>> /\ AllDigits(text)

(* the values of a cleaned cell: a str, a float (of no fractional part) or *)
(* an int, each with its type                                              *)
StrValue(text) == <<"str", text>>
FloatValue(n) == <<"float", n>>
IntValue(n) == <<"int", n>>

(* .astype(float, errors='ignore'): the column is converted as a whole, and *)
(* returned as it was when float() rejects one of its cells                 *)
AsFloat(column) ==
    IF \A k \in 1..Len(column) : column[k] = NaN \/ IsFloatText(column[k])
    THEN [dtype |-> "float64",
          values |-> [k \in 1..Len(column) |->
                        IF column[k] = NaN THEN NaN ELSE FloatValue(ParseInt(column[k]))]]
    ELSE [dtype |-> "object",
          values |-> [k \in 1..Len(column) |->
                        IF column[k] = NaN THEN NaN ELSE StrValue(column[k])]]

(* .fillna(0): 0.0 in a column of floats, the int 0 in a column of objects *)
FillNa(series) ==
    [k \in 1..Len(series.values) |->
        IF series.values[k] # NaN THEN series.values[k]
        ELSE IF series.dtype = "float64" THEN FloatValue(0) ELSE IntValue(0)]

(* lines 89-90: the cleaned column of the cells *)
CleanNumeric(column) ==
    FillNa(AsFloat([k \in 1..Len(column) |-> StripCommas(column[k])]))

Clean(f) ==
    LET standard == CleanNumeric([k \in 1..Len(f.rows) |-> f.rows[k].standard])
    IN  [header |-> f.header \cup {"customer_id", "iso_timestamp"},
         rows |-> [k \in 1..Len(f.rows) |->
                     [account_id    |-> f.rows[k].account_id,
                      customer_id   |-> IF "customer_id" \in f.header
                                        THEN f.rows[k].customer_id ELSE None,
                      month         |-> f.rows[k].month,
                      standard      |-> standard[k],
                      iso_timestamp |-> IsoTimestamp(f.rows[k].month)]]]

NoData == [header |-> {}, rows |-> <<>>]

(* the except clauses without the last one, `except Exception` *)
Handler_specific(exc) ==
    IF exc = "FileNotFoundError" THEN "file_not_found"
    ELSE IF exc = "EmptyDataError" THEN "file_empty"
    ELSE IF exc = "ParserError" THEN "parse_error"
    ELSE "uncaught"

(* lines 147-154: the except clauses of the run, in order *)
Handler(exc) ==
    IF exc = "FileNotFoundError" THEN "file_not_found"
    ELSE IF exc = "EmptyDataError" THEN "file_empty"
    ELSE IF exc = "ParserError" THEN "parse_error"
    ELSE IF exc \in {"OrbError", "KeyError", "ValueError", "TypeError", "AttributeError", "APIError"}
         THEN "unexpected_error"
    ELSE "uncaught"

(* `not x or pd.isna(x)` of line 101 and `not x` of line 107 *)
Missing(x) == x = None \/ x = ""

(* the key taken from the length of the batch instead of the row's index *)
IdempotencyKey_count(idx) == "event_" \o ToString(Len(events))

IdempotencyKey(idx) == "event_" \o ToString(idx)

(* lines 112-126 *)
EventParams(row, idx, customer_id) ==
    [event_name |-> "ingest_event",
     idempotency_key |-> IdempotencyKey(idx),
     properties |-> [account_id |-> row.account_id, month |-> row.month,
                     standard |-> row.standard],
     timestamp |-> row.iso_timestamp,
     customer_id |-> customer_id]

(* lines 112-130: row[...] of a missing column raises KeyError, caught at 129 *)
BuildEvent(header, row, idx, customer_id) ==
    IF {"account_id", "month", "transaction_id", "standard", "iso_timestamp"} \subseteq header
    THEN [result |-> "appended", event |-> <<EventParams(row, idx, customer_id)>>]
    ELSE [result |-> "error", event |-> <<>>]

(* the body of the loop calling create_or_get_customer again when it returns None *)
RowBody_retry(header, row, idx, cache, response) ==
    IF Missing(row.customer_id)
    THEN IF "account_id" \notin header
         THEN [result |-> "error", event |-> <<>>, cache |-> cache, called |-> <<>>]
         ELSE LET customer_data == [account_id |-> row.account_id,
                                    email |-> row.account_id \o "@example.com"]
                  first == create_or_get_customer(customer_data, cache, response)
                  again == create_or_get_customer(customer_data, first.cache, response)
                  r == IF Missing(first.ret)
                       THEN [again EXCEPT !.called = first.called \o again.called]
                       ELSE first
              IN  IF Missing(r.ret)
                  THEN [result |-> "skipped", event |-> <<>>,
                        cache |-> r.cache, called |-> r.called]
                  ELSE BuildEvent(header, row, idx, r.ret)
                         @@ [cache |-> r.cache, called |-> r.called]
    ELSE BuildEvent(header, row, idx, row.customer_id)
           @@ [cache |-> cache, called |-> <<>>]

(* the body of the loop resolving every row through create_or_get_customer, *)
(* whether or not the row supplies a customer_id                           *)
RowBody_resolve(header, row, idx, cache, response) ==
    IF "account_id" \notin header
    THEN [result |-> "error", event |-> <<>>, cache |-> cache, called |-> <<>>]
    ELSE LET r == create_or_get_customer(
                      [account_id |-> row.account_id,
                       email |-> row.account_id \o "@example.com"],
                      cache, response)
         IN  IF Missing(r.ret)
             THEN [result |-> "skipped", event |-> <<>>,
                   cache |-> r.cache, called |-> r.called]
             ELSE BuildEvent(header, row, idx, r.ret)
                    @@ [cache |-> r.cache, called |-> r.called]

(* lines 98-130: the body of the loop for one row *)
RowBody(header, row, idx, cache, response) ==
    IF Missing(row.customer_id)
    THEN IF "account_id" \notin header
         THEN [result |-> "error", event |-> <<>>, cache |-> cache, called |-> <<>>]
         ELSE LET r == create_or_get_customer(
                           [account_id |-> row.account_id,
                            email |-> row.account_id \o "@example.com"],
                           cache, response)
              IN  IF Missing(r.ret)
                  THEN [result |-> "skipped", event |-> <<>>,
                        cache |-> r.cache, called |-> r.called]
                  ELSE BuildEvent(header, row, idx, r.ret)
                         @@ [cache |-> r.cache, called |-> r.called]
    ELSE BuildEvent(header, row, idx, row.customer_id)
           @@ [cache |-> cache, called |-> <<>>]

Keys(evs) == [k \in 1..Len(evs) |-> evs[k].idempotency_key]

(* the record of a remote call, with the position of the loop it was made at *)
At(called, idx) == [k \in 1..Len(called) |-> [at |-> idx] @@ called[k]]

(***************************************************************************)
(* The state machine.  pc is the position in ingest_csv_to_orb; calls is   *)
(* the platform's record of the calls received; rowlog is what each pass   *)
(* of the loop did with its row; outcome is the last message of the run.   *)
(* first_keys keeps the first run's key of every row for the rerun.        *)
(***************************************************************************)
Init ==
    /\ pc = "start"
    /\ file = NoFile
    /\ data = NoData
    /\ index = 0
    /\ customer_cache = <<>>
    /\ events = <<>>
    /\ backfill_id = None
    /\ calls = <<>>
    /\ rowlog = <<>>
    /\ outcome = "running"
    /\ run = "first"
    /\ first_keys = <<>>

Abort(exc) ==
    /\ pc' = "done"
    /\ outcome' = Handler(exc)
    /\ UNCHANGED <<data, index, customer_cache, events, backfill_id, calls, rowlog>>

(* lines 76-96 *)
Load ==
    /\ pc = "start"
    /\ \E f \in (IF run = "first" THEN Files ELSE {file}), api_key \in {None, "key"} :
         /\ file' = f
         /\ IF OrbClient(api_key) # None THEN Abort(OrbClient(api_key))
            ELSE IF ReadCsv(f) # None THEN Abort(ReadCsv(f))
            ELSE IF CleanExc(f) # None THEN Abort(CleanExc(f))
            ELSE /\ data' = Clean(f)
                 /\ customer_cache' = <<>>
                 /\ events' = <<>>
                 /\ pc' = "loop"
                 /\ UNCHANGED <<index, backfill_id, calls, rowlog, outcome>>
    /\ UNCHANGED <<run, first_keys>>

(* a pass of the loop that merges a row into an event of the same content *)
Iterate_merge ==
    /\ pc = "loop"
    /\ index < Len(data.rows)
    /\ \E response \in CustomerResponses(calls) :
         LET r == RowBody(data.header, data.rows[index + 1], index, customer_cache, response)
             merged == \E j \in 1..Len(events), k \in 1..Len(r.event) :
                          /\ events[j].properties = r.event[k].properties
                          /\ events[j].customer_id = r.event[k].customer_id
         IN  /\ customer_cache' = r.cache
             /\ events' = IF merged THEN events ELSE events \o r.event
             /\ calls' = calls \o At(r.called, index)
             /\ rowlog' = Append(rowlog, [index |-> index, result |-> r.result])
    /\ index' = index + 1
    /\ UNCHANGED <<pc, file, data, backfill_id, outcome, run, first_keys>>

(* lines 97-130: one pass of the loop *)
Iterate ==
    /\ pc = "loop"
    /\ index < Len(data.rows)
    /\ \E response \in CustomerResponses(calls) :
         LET r == RowBody(data.header, data.rows[index + 1], index, customer_cache, response)
         IN  /\ customer_cache' = r.cache
             /\ events' = events \o r.event
             /\ calls' = calls \o At(r.called, index)
             /\ rowlog' = Append(rowlog, [index |-> index, result |-> r.result])
    /\ index' = index + 1
    /\ UNCHANGED <<pc, file, data, backfill_id, outcome, run, first_keys>>

(* the end of the loop without the test of line 132 *)
EndLoop_unguarded ==
    /\ pc = "loop"
    /\ index = Len(data.rows)
    /\ pc' = "backfill"
    /\ UNCHANGED <<file, data, index, customer_cache, events, backfill_id, calls,
                   rowlog, outcome, run, first_keys>>

(* lines 132, 144-145 *)
EndLoop ==
    /\ pc = "loop"
    /\ index = Len(data.rows)
    /\ IF events # <<>>
       THEN pc' = "backfill" /\ UNCHANGED outcome
       ELSE pc' = "done" /\ outcome' = "no_events"
    /\ UNCHANGED <<file, data, index, customer_cache, events, backfill_id, calls,
                   rowlog, run, first_keys>>

(* the backfill step giving up the run when create_backfill returns None *)
Backfill_abort ==
    /\ pc = "backfill"
    /\ \E response \in BackfillResponses :
         LET r == create_backfill(events, response)
         IN  /\ backfill_id' = r.ret
             /\ calls' = calls \o At(r.called, index)
             /\ IF r.ret = None
                THEN pc' = "done" /\ outcome' = "unexpected_error"
                ELSE pc' = "ingest" /\ UNCHANGED outcome
    /\ UNCHANGED <<file, data, index, customer_cache, events, rowlog, run, first_keys>>

(* lines 134-136 *)
Backfill ==
    /\ pc = "backfill"
    /\ \E response \in BackfillResponses :
         LET r == create_backfill(events, response)
         IN  /\ backfill_id' = r.ret
             /\ calls' = calls \o At(r.called, index)
    /\ pc' = "ingest"
    /\ UNCHANGED <<file, data, index, customer_cache, events, rowlog, outcome,
                   run, first_keys>>

(* the ingest request without the backfill identifier *)
IngestCall_nobackfill(evs, id, response) ==
    Call("events.ingest", [events |-> evs, debug |-> TRUE, backfill_id |-> None],
         response.ok, None)

(* line 140: the bulk ingest request *)
IngestCall(evs, id, response) ==
    Call("events.ingest", [events |-> evs, debug |-> TRUE, backfill_id |-> id],
         response.ok, None)

(* lines 139-143 *)
Ingest ==
    /\ pc = "ingest"
    /\ \E response \in IngestResponses :
         /\ calls' = calls \o At(<<IngestCall(events, backfill_id, response)>>, index)
         /\ outcome' = IF response.ok THEN "ingested" ELSE "ingest_error"
    /\ pc' = "done"
    /\ UNCHANGED <<file, data, index, customer_cache, events, backfill_id, rowlog,
                   run, first_keys>>

(* the key each row of the run got, None for a row that gave no event *)
RECURSIVE RowKeys(_, _)
RowKeys(log, evs) ==
    IF log = <<>> THEN <<>>
    ELSE IF Head(log).result = "appended"
         THEN <<Head(evs).idempotency_key>> \o RowKeys(Tail(log), Tail(evs))
         ELSE <<None>> \o RowKeys(Tail(log), evs)

(* the program is run again on the same file: a new process, nothing kept *)
Rerun ==
    /\ pc = "done"
    /\ run = "first"
    /\ run' = "second"
    /\ first_keys' = RowKeys(rowlog, events)
    /\ pc' = "start"
    /\ data' = NoData
    /\ index' = 0
    /\ customer_cache' = <<>>
    /\ events' = <<>>
    /\ backfill_id' = None
    /\ calls' = <<>>
    /\ rowlog' = <<>>
    /\ outcome' = "running"
    /\ UNCHANGED file

Next == Load \/ Iterate \/ EndLoop \/ Backfill \/ Ingest \/ Rerun

Spec == Init /\ [][Next]_vars

(***************************************************************************)
(* create_backfill called on its own, with any list of events: the batch   *)
(* of a file whose rows all gave an event, the empty list included.        *)
(* outcome is the message the call printed (lines 32, 35).                 *)
(***************************************************************************)
BatchOf(rows) ==
    LET cleaned == Clean([kind |-> "csv", header |-> AllColumns, rows |-> rows]).rows
    IN  [k \in 1..Len(rows) |-> EventParams(cleaned[k], k - 1, "cus_1")]

BackfillInputs == { BatchOf(rows) : rows \in SeqsUpTo(RawRows, MaxRows) }

BackfillMessage(error) ==
    IF error = None THEN "Backfill created successfully"
    ELSE "Error creating backfill: " \o error

CallInit ==
    /\ pc = "call"
    /\ events \in BackfillInputs
    /\ file = NoFile
    /\ data = NoData
    /\ index = 0
    /\ customer_cache = <<>>
    /\ backfill_id = None
    /\ calls = <<>>
    /\ rowlog = <<>>
    /\ outcome = "running"
    /\ run = "first"
    /\ first_keys = <<>>

CallBackfill ==
    /\ pc = "call"
    /\ \E response \in BackfillResponses :
         LET r == create_backfill(events, response)
         IN  /\ backfill_id' = r.ret
             /\ calls' = calls \o At(r.called, index)
             /\ outcome' = BackfillMessage(r.error)
    /\ pc' = "returned"
    /\ UNCHANGED <<file, data, index, customer_cache, events, rowlog, run, first_keys>>

CallNext == CallBackfill

CallSpec == CallInit /\ [][CallNext]_vars

(***************************************************************************)
(* Vocabulary of the properties.                                           *)
(***************************************************************************)
Loaded == data # NoData

PastLoop == pc \in {"backfill", "ingest", "done"}

CallsOf(op) == { k \in 1..Len(calls) : calls[k].op = op }

(* the customer-creation calls made for account a, and those that succeeded *)
CreateCallsFor(a) ==
    { k \in CallsOf("customers.create") : data.rows[calls[k].at + 1].account_id = a }

CreatedFor(a) == { k \in CreateCallsFor(a) : calls[k].ok }

(* positions (from 1) of the rows visited so far with account a and no customer_id *)
UnresolvedRows(a) ==
    { k \in 1..Len(rowlog) :
        data.rows[k].account_id = a /\ data.rows[k].customer_id = None }

AccountsOfData ==
    IF "account_id" \in data.header
    THEN { data.rows[k].account_id : k \in 1..Len(data.rows) }
    ELSE {}

(* the position of the row each event of the batch came from *)
AppendedRows ==
    SelectSeq([k \in 1..Len(rowlog) |-> k], LAMBDA k : rowlog[k].result = "appended")

(* the events that came from rows with account a and no customer_id *)
ResolvedEvents(a) ==
    { j \in 1..Len(events) : AppendedRows[j] \in UnresolvedRows(a) }

(***************************************************************************)
(* C1 as stated: two or more rows with the same account_id and no          *)
(* customer_id lead to exactly one customer-creation call for that         *)
(* account_id in the run, and their events carry one identifier.           *)
(***************************************************************************)
C1_OneCallPerAccount ==
    PastLoop =>
      \A a \in AccountsOfData :
        Cardinality(UnresolvedRows(a)) >= 2 =>
          /\ Cardinality(CreateCallsFor(a)) = 1
          /\ \A j, k \in ResolvedEvents(a) : events[j].customer_id = events[k].customer_id

(***************************************************************************)
(* C1 amended: for every account_id at most one customer-creation call     *)
(* succeeds and no call for it follows that success (a cached account_id   *)
(* makes no remote call); every call before it failed, one per row without *)
(* customer_id; the cache holds exactly the identifier that call returned  *)
(* and every event of a row without customer_id carries it.                *)
(***************************************************************************)
C1_CacheIdempotence ==
    \A a \in AccountsOfData :
      /\ Cardinality(CreatedFor(a)) <= 1
      /\ \A k \in CreatedFor(a) : \A j \in CreateCallsFor(a) : j <= k
      /\ a \in DOMAIN customer_cache <=> CreatedFor(a) # {}
      /\ \A k \in CreatedFor(a) : customer_cache[a] = calls[k].ret
      /\ \A j \in ResolvedEvents(a) :
           /\ CreatedFor(a) # {}
           /\ \A k \in CreatedFor(a) : events[j].customer_id = calls[k].ret
      /\ (CreatedFor(a) = {} /\ pc = "done") =>
           Cardinality(CreateCallsFor(a)) = Cardinality(UnresolvedRows(a))

(* two rows of one account resolved by one call, the second from the cache *)
C1_Witness ==
    /\ pc = "done"
    /\ \E a \in AccountsOfData :
         /\ Cardinality(ResolvedEvents(a)) >= 2
         /\ Cardinality(CreateCallsFor(a)) = 1

(***************************************************************************)
(* C2 as stated: any two events of the batch with the same account_id      *)
(* carry the same customer_id.                                             *)
(***************************************************************************)
C2_OneCustomerPerAccount ==
    \A j, k \in 1..Len(events) :
      events[j].properties.account_id = events[k].properties.account_id
        => events[j].customer_id = events[k].customer_id

(* within a run an entry of the cache is neither dropped nor given another value *)
CacheKept ==
    run' = run =>
      \A a \in DOMAIN customer_cache :
        a \in DOMAIN customer_cache' /\ customer_cache'[a] = customer_cache[a]

(* the event of a row carries the row's customer_id, or the cached one if it has none *)
CarriesRowOrCache ==
    \A j \in 1..Len(events) :
      LET row == data.rows[AppendedRows[j]]
      IN  IF row.customer_id = None
          THEN /\ row.account_id \in DOMAIN customer_cache
               /\ events[j].customer_id = customer_cache[row.account_id]
          ELSE events[j].customer_id = row.customer_id

(***************************************************************************)
(* C2 amended: within a run an entry of the cache is never overwritten or  *)
(* removed once set, and any two events with the same account_id whose     *)
(* rows had no customer_id carry the same customer_id, the cached one; an  *)
(* event whose row supplied a customer_id carries that one instead.        *)
(***************************************************************************)
C2_OneCachedCustomerPerAccount ==
    /\ [](Len(AppendedRows) = Len(events) /\ CarriesRowOrCache)
    /\ [][CacheKept]_vars

(* one account with two events from the cache and one with a supplied customer_id *)
C2_Witness ==
    /\ pc = "done"
    /\ \E a \in AccountsOfData :
         /\ Cardinality(ResolvedEvents(a)) >= 2
         /\ \E j \in 1..Len(events) :
              /\ events[j].properties.account_id = a
              /\ events[j].customer_id # customer_cache[a]

(***************************************************************************)
(* C3 as stated: the keys of the submitted batch of an input of N rows are *)
(* exactly event_0 .. event_{N-1}, in that order.                          *)
(***************************************************************************)
C3_KeysAreAllPositions ==
    \A c \in CallsOf("events.ingest") :
      Keys(calls[c].args.events) = [k \in 1..Len(data.rows) |-> "event_" \o ToString(k - 1)]

(***************************************************************************)
(* C3 amended: the keys of the batch are event_i for exactly the rows i    *)
(* (counted from 0) that were not skipped, in file order, so pairwise      *)
(* distinct, and all of event_0 .. event_{N-1} when no row is skipped; in  *)
(* a second run over the same input every row that gives an event gets the *)
(* key it got, if any, in the first run.                                   *)
(***************************************************************************)
C3_PositionalKeys ==
    /\ Len(events) = Len(AppendedRows)
    /\ \A j \in 1..Len(events) :
         events[j].idempotency_key = "event_" \o ToString(AppendedRows[j] - 1)
    /\ \A j, k \in 1..Len(events) :
         j # k => events[j].idempotency_key # events[k].idempotency_key
    /\ (pc = "done" /\ Loaded /\ Len(events) = Len(data.rows)) =>
         Keys(events) = [k \in 1..Len(data.rows) |-> "event_" \o ToString(k - 1)]
    /\ run = "second" =>
         \A j \in 1..Len(events) :
           LET k == AppendedRows[j]
           IN  (k <= Len(first_keys) /\ first_keys[k] # None)
                 => events[j].idempotency_key = first_keys[k]

(* a second run that skipped a row the first did not, and kept the keys of the others *)
C3_Witness ==
    /\ run = "second"
    /\ pc = "done"
    /\ Len(first_keys) = 3
    /\ \A k \in 1..3 : first_keys[k] # None
    /\ Keys(events) = <<"event_0", "event_2">>

(* the place of a remote operation in the order of a run *)
Rank(op) ==
    IF op = "customers.create" THEN 1
    ELSE IF op = "backfills.create" THEN 2
    ELSE 3

(***************************************************************************)
(* C4: the remote calls of a run are ordered: customer creations, then the *)
(* backfill creation, then the one ingest call; no customer is created     *)
(* once the backfill has been requested; the ingest call carries every     *)
(* event accumulated by the loop and the identifier the backfill creation  *)
(* returned.                                                               *)
(***************************************************************************)
C4_CallOrder ==
    /\ \A j, k \in 1..Len(calls) : j < k => Rank(calls[j].op) <= Rank(calls[k].op)
    /\ \A k \in CallsOf("customers.create") : calls[k].at < Len(data.rows)
    /\ (CallsOf("backfills.create") # {} \/ CallsOf("events.ingest") # {}) =>
         Len(rowlog) = Len(data.rows)
    /\ Cardinality(CallsOf("events.ingest")) <= 1
    /\ \A k \in CallsOf("events.ingest") :
         /\ calls[k].args.events = events
         /\ Len(events) = Len(AppendedRows)
         /\ \A b \in CallsOf("backfills.create") :
              calls[b].ok => calls[k].args.backfill_id = calls[b].ret
         /\ (\A b \in CallsOf("backfills.create") : ~calls[b].ok) =>
              calls[k].args.backfill_id = None

(* a run that created a customer, then the backfill, then ingested under it *)
C4_Witness ==
    /\ pc = "done"
    /\ \E c \in CallsOf("customers.create"), b \in CallsOf("backfills.create"),
          k \in CallsOf("events.ingest") :
         /\ calls[c].ok
         /\ calls[b].ok
         /\ calls[k].args.backfill_id = calls[b].ret
         /\ Len(calls[k].args.events) >= 2

(***************************************************************************)
(* C5: when the loop ends with no event (no data rows, or every row        *)
(* skipped) the run ends with the "no events" message and has made neither *)
(* a backfill-create call nor an ingest call; the message is given in no   *)
(* other case.                                                             *)
(***************************************************************************)
C5_EmptyBatch ==
    /\ (Loaded /\ PastLoop /\ events = <<>>) =>
         /\ pc = "done"
         /\ outcome = "no_events"
         /\ CallsOf("backfills.create") = {}
         /\ CallsOf("events.ingest") = {}
    /\ outcome = "no_events" => (Loaded /\ pc = "done" /\ events = <<>>)

(* a header-only file: loaded, no rows, ended with "no events" *)
C5_Witness ==
    /\ pc = "done"
    /\ Loaded
    /\ data.rows = <<>>
    /\ outcome = "no_events"

(***************************************************************************)
(* C6: when create_backfill returns None for a non-empty batch the run     *)
(* goes on to the ingest step and makes exactly one ingest call, with      *)
(* every event of the batch and backfill_id None.                          *)
(***************************************************************************)
C6_BackfillFailureProceeds ==
    (Loaded /\ pc \in {"ingest", "done"} /\ events # <<>> /\ backfill_id = None) =>
      /\ pc = "ingest" => CallsOf("events.ingest") = {}
      /\ pc = "done" =>
           /\ Cardinality(CallsOf("events.ingest")) = 1
           /\ outcome \in {"ingested", "ingest_error"}
           /\ \A k \in CallsOf("events.ingest") :
                /\ calls[k].args.events = events
                /\ calls[k].args.backfill_id = None

(* the backfill request was refused and the batch of two was ingested all the same *)
C6_Witness ==
    /\ pc = "done"
    /\ Len(events) >= 2
    /\ \E b \in CallsOf("backfills.create"), k \in CallsOf("events.ingest") :
         /\ ~calls[b].ok
         /\ calls[k].args.backfill_id = None
         /\ calls[k].args.events = events

(* a pass of the loop whose customer-creation call raised, and what it must do *)
CreationFails ==
    /\ pc = "loop"
    /\ Len(calls') = Len(calls) + 1
    /\ calls'[Len(calls')].op = "customers.create"
    /\ ~calls'[Len(calls')].ok

SkipsTheRow ==
    /\ customer_cache' = customer_cache
    /\ events' = events
    /\ rowlog' = Append(rowlog, [index |-> index, result |-> "skipped"])
    /\ index' = index + 1
    /\ pc' = "loop"

FullHeader == AllColumns \subseteq data.header

(***************************************************************************)
(* C7: a pass of the loop whose customer-creation call fails leaves the    *)
(* cache and the batch as they were, records the row as skipped and goes   *)
(* on to the next row; every row is visited whatever failed before it, and *)
(* a row that supplies its customer_id gives its event whatever failed     *)
(* around it.                                                              *)
(***************************************************************************)
C7_FailedCreationSkipsRow ==
    /\ [][CreationFails => SkipsTheRow]_vars
    /\ []((PastLoop /\ Loaded) => Len(rowlog) = Len(data.rows))
    /\ [](\A k \in 1..Len(rowlog) :
            (FullHeader /\ data.rows[k].customer_id # None)
              => rowlog[k].result = "appended")

(* the creation failed for the second of three rows; the first and third gave events *)
C7_Witness ==
    /\ pc = "done"
    /\ Len(rowlog) = 3
    /\ rowlog[1].result = "appended"
    /\ rowlog[2].result = "skipped"
    /\ rowlog[3].result = "appended"
    /\ \E k \in CallsOf("customers.create") : calls[k].at = 1 /\ ~calls[k].ok
    /\ Keys(events) = <<"event_0", "event_2">>

(* the messages a run can end with *)
Messages ==
    {"ingested", "ingest_error", "no_events", "file_not_found", "file_empty",
     "parse_error", "unexpected_error"}

VisitedInOrder == [k \in 1..Len(rowlog) |-> rowlog[k].index] = [k \in 1..Len(data.rows) |-> k - 1]

(* an upper bound on the steps the program has left *)
StepsLeft ==
    (IF run = "first" THEN MaxRows + 5 ELSE 0)
      + (IF pc = "start" THEN MaxRows + 4
         ELSE IF pc = "loop" THEN (Len(data.rows) - index) + 3
         ELSE IF pc = "backfill" THEN 2
         ELSE IF pc = "ingest" THEN 1
         ELSE 0)

Progress == StepsLeft' < StepsLeft /\ StepsLeft' >= 0

(* a run that has not ended can take a step *)
NotStuck == pc # "done" => ENABLED (Load \/ Iterate \/ EndLoop \/ Backfill \/ Ingest)

(***************************************************************************)
(* C8: every run ends, whatever the remote calls answer (a run that has    *)
(* not ended can always step, and every step brings the end nearer); it    *)
(* ends with a message of the run, no exception leaves ingest_csv_to_orb,  *)
(* and when the file was loaded the loop has visited every row once, in    *)
(* file order.                                                             *)
(***************************************************************************)
C8_TerminatesNormally ==
    /\ [](pc = "done" => (outcome \in Messages /\ (Loaded => VisitedInOrder)))
    /\ [](outcome \in Messages \cup {"running"})
    /\ []NotStuck
    /\ [][Progress]_vars

(* a run in which the customer creation, the backfill and the ingest all failed *)
C8_Witness ==
    /\ pc = "done"
    /\ outcome = "ingest_error"
    /\ Len(data.rows) = 3
    /\ VisitedInOrder
    /\ \E c \in CallsOf("customers.create"), b \in CallsOf("backfills.create"),
          k \in CallsOf("events.ingest") :
         ~calls[c].ok /\ ~calls[b].ok /\ ~calls[k].ok

(* calls per row and per run *)
OnePerRow ==
    \A j, k \in CallsOf("customers.create") : j # k => calls[j].at # calls[k].at

OnePerRun ==
    /\ Cardinality(CallsOf("backfills.create")) <= 1
    /\ Cardinality(CallsOf("events.ingest")) <= 1

(***************************************************************************)
(* C9 as stated: at most one customer-creation call per row and per        *)
(* account_id, at most one backfill-create call and one ingest call.       *)
(***************************************************************************)
C9_OneAttemptPerAccount ==
    /\ OnePerRow
    /\ OnePerRun
    /\ \A a \in AccountsOfData : Cardinality(CreateCallsFor(a)) <= 1

(***************************************************************************)
(* C9 amended: no call is repeated for the same row or step: at most one   *)
(* customer-creation call per row, at most one backfill-create call and    *)
(* one ingest call per run.  A failed creation caches nothing, so a later  *)
(* row with that account_id and no customer_id calls again: a visited row  *)
(* without customer_id has a creation call exactly when no earlier call    *)
(* for its account_id succeeded, and rows with a customer_id have none.    *)
(***************************************************************************)
C9_NoRetry ==
    /\ OnePerRow
    /\ OnePerRun
    /\ "account_id" \in data.header =>
         \A r \in 1..Len(rowlog) :
           (\E k \in CallsOf("customers.create") : calls[k].at = r - 1)
             <=> /\ data.rows[r].customer_id = None
                 /\ \A k \in CreatedFor(data.rows[r].account_id) : calls[k].at >= r - 1
    /\ "account_id" \notin data.header => CallsOf("customers.create") = {}

(* three rows of one account: the creation fails, is made again and succeeds, then the cache *)
C9_Witness ==
    /\ pc = "done"
    /\ Len(rowlog) = 3
    /\ \E a \in AccountsOfData :
         /\ UnresolvedRows(a) = {1, 2, 3}
         /\ Cardinality(CreateCallsFor(a)) = 2
         /\ \E j, k \in CreateCallsFor(a) :
              /\ calls[j].at = 0 /\ ~calls[j].ok
              /\ calls[k].at = 1 /\ calls[k].ok

(* the calendar, counted in days *)
DaysBeforeYear(y) == (y - 1) * 365 + (y - 1) \div 4 - (y - 1) \div 100 + (y - 1) \div 400

DaysBeforeMonth(y, m) ==
    <<0, 31, 59, 90, 120, 151, 181, 212, 243, 273, 304, 334>>[m]
      + (IF m > 2 /\ ((y % 4 = 0 /\ y % 100 # 0) \/ y % 400 = 0) THEN 1 ELSE 0)

(* the day an ISO string names, counted from 0001-01-01, and the second of that day *)
DayNumber(ts) ==
    LET dt == FromIsoFormat(StripZ(ts))
    IN  DaysBeforeYear(dt.year) + DaysBeforeMonth(dt.year, dt.month) + dt.day

SecondOfDay(ts) ==
    LET dt == FromIsoFormat(StripZ(ts))
    IN  dt.hour * 3600 + dt.minute * 60 + dt.second

NotLater(a, b) ==
    \/ DayNumber(a) < DayNumber(b)
    \/ DayNumber(a) = DayNumber(b) /\ SecondOfDay(a) <= SecondOfDay(b)

SameFormat(a, b) ==
    /\ Len(a) = Len(b)
    /\ \A k \in 1..Len(a) : IsDigit(a[k]) <=> IsDigit(b[k])
    /\ \A k \in 1..Len(a) : ~IsDigit(a[k]) => a[k] = b[k]

AllValid == \A j \in 1..Len(events) : events[j].timestamp # NaN

(***************************************************************************)
(* C10: the backfill request of a non-empty batch whose timestamps are all *)
(* valid is made, with timeframe_start the earliest timestamp of the batch *)
(* and timeframe_end nine days after it, in the same format.               *)
(***************************************************************************)
C10_BackfillWindow ==
    /\ \A b \in CallsOf("backfills.create") :
         LET start == calls[b].args.timeframe_start
             end == calls[b].args.timeframe_end
         IN  /\ \E j \in 1..Len(events) : events[j].timestamp = start
             /\ \A j \in 1..Len(events) : NotLater(start, events[j].timestamp)
             /\ DayNumber(end) = DayNumber(start) + 9
             /\ SecondOfDay(end) = SecondOfDay(start)
             /\ SameFormat(end, start)
    /\ (pc \in {"ingest", "done"} /\ events # <<>> /\ AllValid) =>
         CallsOf("backfills.create") # {}

(* three events, the first later than the other two, which share the earliest timestamp *)
C10_Witness ==
    /\ CallsOf("backfills.create") # {}
    /\ Len(events) = 3
    /\ events[2].timestamp = events[3].timestamp
    /\ ~NotLater(events[1].timestamp, events[2].timestamp)

(* the standard cell of the file's row the j-th event of the batch came from *)
RawStandard(j) == file.rows[AppendedRows[j]].standard

(* a cell float() rejects once its commas are removed; an empty cell is not text *)
Unparsable(cell) == cell # NaN /\ ~IsFloatText(StripCommas(cell))

(***************************************************************************)
(* C11 as stated: the event of a row whose standard cell is unparsable as  *)
(* a number carries 0, whatever the other rows of the column hold, and the *)
(* event of a row whose cell is parsable carries the number the cell       *)
(* spells without its commas, whether or not another cell is unparsable.   *)
(***************************************************************************)
C11_UnparsableBecomesZero ==
    \A j \in 1..Len(events) :
      /\ Unparsable(RawStandard(j)) =>
           events[j].properties.standard \in {FloatValue(0), IntValue(0)}
      /\ (RawStandard(j) # NaN /\ ~Unparsable(RawStandard(j))) =>
           events[j].properties.standard = FloatValue(ParseInt(StripCommas(RawStandard(j))))

(* the j-th event of the batch was built from row k of the data, at index k - 1 *)
BuiltFrom(j, k) ==
    /\ events[j].idempotency_key = "event_" \o ToString(k - 1)
    /\ events[j].properties = [account_id |-> data.rows[k].account_id,
                               month |-> data.rows[k].month,
                               standard |-> data.rows[k].standard]
    /\ events[j].timestamp = data.rows[k].iso_timestamp

(* the rows visited so far that were neither skipped (no customer) nor in error *)
KeptRows == { k \in 1..Len(rowlog) : rowlog[k].result = "appended" }

(* the creation call made for row k failed *)
CreationFailedAt(k) ==
    \E c \in CallsOf("customers.create") : calls[c].at = k - 1 /\ ~calls[c].ok

(* a row is skipped exactly when its creation call failed, and in error    *)
(* exactly when it was not skipped and a column the loop reads is missing  *)
RowResults ==
    \A k \in 1..Len(rowlog) :
      /\ rowlog[k].result = "skipped" <=> CreationFailedAt(k)
      /\ rowlog[k].result = "error" <=> (~FullHeader /\ ~CreationFailedAt(k))

OrderedAccumulation ==
    /\ Len(events) = Cardinality(KeptRows)
    /\ \A j \in 1..Len(events) : AppendedRows[j] \in KeptRows /\ BuiltFrom(j, AppendedRows[j])
    /\ \A j, k \in 1..Len(events) : j < k => AppendedRows[j] < AppendedRows[k]

AppendOnly ==
    pc = "loop" =>
      \/ events' = events
      \/ /\ Len(events') = Len(events) + 1
         /\ SubSeq(events', 1, Len(events)) = events

(***************************************************************************)
(* C12: at every point of the loop the batch holds exactly one event for   *)
(* each row visited so far that was neither skipped nor in error, built    *)
(* from that row, in the order of the file; a pass of the loop leaves the  *)
(* batch as it was or appends one event to it, so that two rows of the     *)
(* same content give two events.                                           *)
(***************************************************************************)
C12_OrderedAccumulation ==
    /\ [](Loaded => (RowResults /\ OrderedAccumulation))
    /\ [][AppendOnly]_vars

(* a row, a skipped row, then a row of the same content as the first: two events *)
C12_Witness ==
    /\ pc = "loop"
    /\ Len(rowlog) = 3
    /\ rowlog[2].result = "skipped"
    /\ data.rows[1] = data.rows[3]
    /\ Len(events) = 2
    /\ events[1].properties = events[2].properties
    /\ events[1].customer_id = events[2].customer_id

(* line 35 printed for a condition named "no events to backfill" *)
NoEventsToBackfill == BackfillMessage("no events to backfill")

(* create_backfill returned None to its caller without a remote call *)
FailedQuietly ==
    /\ calls = <<>>
    /\ backfill_id = None
    /\ outcome # "running"

(***************************************************************************)
(* C13 as stated: create_backfill called with an empty list of events      *)
(* makes no remote call, returns None to its caller, and the failure it    *)
(* reports is the explicit condition "no events to backfill", not a fault  *)
(* raised by the computation of the window.                                *)
(***************************************************************************)
C13_ExplicitEmptyCondition ==
    (pc = "returned" /\ events = <<>>) =>
      (FailedQuietly /\ outcome = NoEventsToBackfill)

(* what the code does on an empty list: the ValueError of min() is caught *)
EmptyListFailsQuietly ==
    (pc = "returned" /\ events = <<>>) =>
      (FailedQuietly /\ outcome = BackfillMessage("ValueError"))

(* the row about to be visited supplies a customer_id in the file *)
SuppliesCustomer(k) ==
    /\ k \in 1..Len(file.rows)
    /\ "customer_id" \in file.header
    /\ ~Missing(file.rows[k].customer_id)

(* a pass of the loop over a row that supplies its customer_id *)
SuppliedRowStep ==
    (pc = "loop" /\ SuppliesCustomer(index + 1)) =>
      /\ calls' = calls
      /\ customer_cache' = customer_cache
      /\ FullHeader =>
           /\ Len(events') = Len(events) + 1
           /\ events'[Len(events')].customer_id = file.rows[index + 1].customer_id

(* a pass of the loop that changes the cache made one successful creation *)
(* call and added what it returned for the row's account, nothing else     *)
CacheWrittenOnSuccess ==
    (pc = "loop" /\ customer_cache' # customer_cache) =>
      /\ Len(calls') = Len(calls) + 1
      /\ LET c == calls'[Len(calls')]
             a == data.rows[index + 1].account_id
         IN  /\ c.op = "customers.create" /\ c.ok /\ c.at = index
             /\ a \notin DOMAIN customer_cache
             /\ customer_cache' = (a :> c.ret) @@ customer_cache

(***************************************************************************)
(* C14: a pass of the loop over a row that supplies a customer_id makes no *)
(* remote call and leaves the cache as it was, whatever the cache holds    *)
(* for the row's account, and the event it appends carries the customer_id *)
(* of the file unchanged; the cache changes only in a pass whose creation  *)
(* call succeeded, by the entry of that call.                              *)
(***************************************************************************)
C14_SuppliedCustomerFrame ==
    /\ [][SuppliedRowStep]_vars
    /\ [][CacheWrittenOnSuccess]_vars
    /\ [](\A j \in 1..Len(events) :
            SuppliesCustomer(AppendedRows[j]) =>
              events[j].customer_id = file.rows[AppendedRows[j]].customer_id)

(* the account of a row that supplies its customer_id is cached under another *)
(* identifier, and the row's event carries the supplied one                   *)
C14_Witness ==
    /\ Len(events) = 2
    /\ SuppliesCustomer(AppendedRows[2])
    /\ data.rows[AppendedRows[2]].account_id \in DOMAIN customer_cache
    /\ customer_cache[data.rows[AppendedRows[2]].account_id] # events[2].customer_id
    /\ events[2].customer_id = file.rows[AppendedRows[2]].customer_id
    /\ Cardinality(CallsOf("customers.create")) = 1

(* the month cell of row k of the file is not a month of format %m-%Y *)
BadMonthAt(k) == ~MonthMatches(file.rows[k].month)

NullTimestamps == { j \in 1..Len(events) : events[j].timestamp = NaN }

(***************************************************************************)
(* C15: a visited row whose month is unparsable, and that was neither      *)
(* skipped nor in error, has its event in the batch, with NaN for          *)
(* timestamp; once the backfill step is over for a batch with such an      *)
(* event, no backfill-create call was made and backfill_id is None; at the *)
(* end of the run the one ingest call carried the whole batch, the events  *)
(* with valid timestamps included, with backfill_id None.                  *)
(***************************************************************************)
C15_NullTimestampBatch ==
    /\ \A k \in 1..Len(rowlog) :
         (Loaded /\ BadMonthAt(k) /\ FullHeader /\ ~CreationFailedAt(k)) =>
           /\ rowlog[k].result = "appended"
           /\ \E j \in NullTimestamps : AppendedRows[j] = k
    /\ (pc \in {"ingest", "done"} /\ NullTimestamps # {}) =>
         /\ CallsOf("backfills.create") = {}
         /\ backfill_id = None
    /\ (pc = "done" /\ NullTimestamps # {}) =>
         /\ Cardinality(CallsOf("events.ingest")) = 1
         /\ \A c \in CallsOf("events.ingest") :
              /\ calls[c].args.events = events
              /\ calls[c].args.backfill_id = None

(* a batch of a valid and a NaN timestamp, ingested without a backfill *)
C15_Witness ==
    /\ pc = "done"
    /\ Len(events) = 2
    /\ file.rows[AppendedRows[2]].month = BadMonth
    /\ events[1].timestamp # NaN
    /\ events[2].timestamp = NaN
    /\ \E c \in CallsOf("events.ingest") :
         calls[c].args.events = events /\ calls[c].args.backfill_id = None /\ calls[c].ok

====
